---- MODULE Spec2Model ----
(***************************************************************************)
(* The <podcast-card> custom element of src/src/createPodcastCard.js (the  *)
(* same class is repeated in src/src/podcastCard.js, lines 107-236) and    *)
(* the attribute-only card of src/src/podcastCard.js, lines 1-72.          *)
(*                                                                         *)
(* JavaScript values are tagged records, so that values of different types *)
(* are never confused: null, undefined, strings, numbers, arrays, objects. *)
(* An object is a function from the six field names to values; a field     *)
(* that is absent reads as undefined, as a property access does.           *)
(* Date formatting is modelled for an en-US locale in the UTC time zone;   *)
(* the em-dash U+2014 is written "U+2014" (the module is ASCII).           *)
(***************************************************************************)
EXTENDS Integers, Sequences, FiniteSets, TLC

VARIABLES
  attrs,        \* the element's attributes: name -> Null or a string value
  _podcast,     \* this._podcast
  shadow,       \* this.shadowRoot.innerHTML, as the sequence of cards in it
  renders,      \* number of completed calls of render()
  events,       \* the events dispatched by the element so far
  error,        \* "none", or the exception a handler has thrown
  lastOp,       \* the handler that ran last, with its arguments
  lastChanged,  \* the input channel whose value changed last
  basicAttrs,   \* attributes of the attribute-only card
  basicShadow   \* its shadowRoot.innerHTML

vars == <<attrs, _podcast, shadow, renders, events, error, lastOp,
          lastChanged, basicAttrs, basicShadow>>

cardVars == <<attrs, _podcast, shadow, renders, events, error, lastOp,
              lastChanged>>
basicVars == <<basicAttrs, basicShadow>>

-----------------------------------------------------------------------------
(* Bounds *)

MaxRenders == 3
MaxClicks == 2
MaxGenres == 2

-----------------------------------------------------------------------------
(* JavaScript values *)

Null == [t |-> "null"]
Undefined == [t |-> "undefined"]
Str(s) == [t |-> "string", s |-> s]
Num(n) == [t |-> "number", n |-> n]
Arr(a) == [t |-> "array", a |-> a]
Obj(o) == [t |-> "object", o |-> o]

observedAttributes ==
  {"title", "image", "description", "genres", "seasons", "updated"}

basicObservedAttributes == {"title", "image", "description"}

EmDash == "U+2014"

\* ToBoolean: what `v || d` and `v ? a : b` test
Truthy(v) ==
  CASE v.t = "null" -> FALSE
    [] v.t = "undefined" -> FALSE
    [] v.t = "string" -> v.s # ""
    [] v.t = "number" -> v.n # 0
    [] OTHER -> TRUE

\* a || b
Or(a, b) == IF Truthy(a) THEN a ELSE b

\* Array.isArray
IsArray(v) == v.t = "array"

\* String(e) of a primitive
PrimToString(e) ==
  CASE e.t = "string" -> e.s
    [] e.t = "number" -> ToString(e.n)
    [] e.t = "null" -> "null"
    [] e.t = "undefined" -> "undefined"
    [] OTHER -> "[object Object]"

\* Array.prototype.join: null and undefined elements give the empty string
JoinElem(e) == IF e.t \in {"null", "undefined"} THEN "" ELSE PrimToString(e)

RECURSIVE join(_, _)
join(a, sep) ==
  IF Len(a) = 0 THEN ""
  ELSE IF Len(a) = 1 THEN JoinElem(a[1])
  ELSE JoinElem(a[1]) \o sep \o join(Tail(a), sep)

\* the string a template literal `${v}` interpolates
ToStr(v) ==
  CASE v.t = "array" -> join(v.a, ",")
    [] v.t = "object" -> "[object Object]"
    [] OTHER -> PrimToString(v)

\* data.f: a property read; throws on null and undefined (guarded by the
\* callers), gives undefined on a primitive
Get(data, f) == IF data.t = "object" THEN data.o[f] ELSE Undefined

\* new Date(v).toLocaleDateString(undefined,
\*    {year: 'numeric', month: 'short', day: 'numeric'})
toLocaleDateString(v) ==
  CASE v = Str("2024-01-15") -> "Jan 15, 2024"
    [] v = Str("2024-09-01") -> "Sep 1, 2024"
    [] v.t = "number" /\ v.n > 0 /\ v.n < 86400000 -> "Jan 1, 1970"
    [] OTHER -> "Invalid Date"

-----------------------------------------------------------------------------
(* The card: src/src/createPodcastCard.js *)

TypeError == [threw |-> "TypeError"]

\* _attributesToObject(): getAttribute gives null for an absent attribute
_attributesToObject(a) == Obj([f \in observedAttributes |-> a[f]])

\* a variant of renderData that prefers the attributes when any is present
renderData_attributesFirst(p, a) ==
  IF \E n \in observedAttributes : a[n] # Null
    THEN _attributesToObject(a) ELSE Or(p, _attributesToObject(a))

\* line 136: const data = this._podcast || this._attributesToObject()
renderData(p, a) == Or(p, _attributesToObject(a))

\* a variant of detailPodcast that always derives the record from attributes
detailPodcast_attributesOnly(p, a) == _attributesToObject(a)

\* a variant of detailPodcast without the fallback to the attributes
detailPodcast_noFallback(p, a) == p

\* line 54: detail: { podcast: this._podcast || this._attributesToObject() }
detailPodcast(p, a) == Or(p, _attributesToObject(a))

\* a variant of genresText without the Array.isArray branch
genresText_noArrayBranch(g) == Or(g, Str(""))

\* lines 140-143
genresText(g) == IF IsArray(g) THEN Str(join(g.a, ", ")) ELSE Or(g, Str(""))

\* lines 145-151
updatedText(u) == IF Truthy(u) THEN Str(toLocaleDateString(u)) ELSE Str("")

\* lines 218-226: the markup of the card, by its interpolated parts
cardMarkup(title, image, genres, seasons, updated) ==
  [ imgSrc |-> ToStr(image),
    imgAlt |-> ToStr(title),
    h3 |-> ToStr(title),
    genresMeta |-> IF Truthy(genres) THEN "Genres: " \o ToStr(genres) ELSE "",
    seasonsMeta |-> "Seasons: " \o ToStr(seasons),
    updatedMeta |-> IF Truthy(updated)
                      THEN "Last updated: " \o ToStr(updated) ELSE "" ]

\* a variant of renderCard that interpolates data.title without a default
renderCard_noTitleDefault(data) ==
  IF data.t \in {"null", "undefined"} THEN TypeError
  ELSE cardMarkup(Get(data, "title"),
                  Or(Get(data, "image"), Str("placeholder.jpg")),
                  genresText(Get(data, "genres")),
                  Or(Get(data, "seasons"), Str(EmDash)),
                  updatedText(Get(data, "updated")))

\* render(), lines 134-228, as a function of `data`: the markup it assigns,
\* or the TypeError of reading a property of null or undefined
renderCard(data) ==
  IF data.t \in {"null", "undefined"} THEN TypeError
  ELSE cardMarkup(Or(Get(data, "title"), Str("Untitled Podcast")),
                  Or(Get(data, "image"), Str("placeholder.jpg")),
                  genresText(Get(data, "genres")),
                  Or(Get(data, "seasons"), Str(EmDash)),
                  updatedText(Get(data, "updated")))

\* a variant of setInnerHTML that appends (innerHTML += ...)
setInnerHTML_append(old, markup) == Append(old, markup)

\* line 172: this.shadowRoot.innerHTML = `...` replaces the content
setInnerHTML(old, markup) == <<markup>>

\* the effect of this.render() on shadow, renders and error, given the
\* values p of this._podcast and a of the attributes at the call
render(p, a) ==
  LET out == renderCard(renderData(p, a)) IN
  IF out = TypeError
    THEN /\ error' = "TypeError"
         /\ UNCHANGED <<shadow, renders>>
    ELSE /\ shadow' = setInnerHTML(shadow, out)
         /\ renders' = renders + 1
         /\ UNCHANGED error

\* a variant of valueChanged that treats every notification as a change
valueChanged_always(oldValue, newValue) == TRUE

\* line 79: if (oldValue !== newValue)
valueChanged(oldValue, newValue) == oldValue # newValue

\* new CustomEvent('podcast-selected', {detail, bubbles, composed}),
\* lines 53-57
CustomEvent(type, init) ==
  [type |-> type, detail |-> init.detail, bubbles |-> init.bubbles,
   composed |-> init.composed]

\* constructor(), lines 46-59: the state of a new element
Init ==
  /\ attrs = [n \in observedAttributes |-> Null]
  /\ _podcast = Null
  /\ shadow = <<>>
  /\ renders = 0
  /\ events = <<>>
  /\ error = "none"
  /\ lastOp = [op |-> "constructor"]
  /\ lastChanged = "none"
  /\ basicAttrs = [n \in basicObservedAttributes |-> Null]
  /\ basicShadow = <<>>

\* connectedCallback(), lines 70-72
connectedCallback ==
  /\ renders < MaxRenders
  /\ render(_podcast, attrs)
  /\ lastOp' = [op |-> "connectedCallback"]
  /\ UNCHANGED <<attrs, _podcast, events, lastChanged>>
  /\ UNCHANGED basicVars

\* attributeChangedCallback(name, oldValue, newValue), lines 78-82, called
\* by the platform after the attribute `name` got the value newValue
attributeChangedCallback(name, oldValue, newValue) ==
  /\ attrs' = [attrs EXCEPT ![name] = newValue]
  /\ IF valueChanged(oldValue, newValue)
       THEN /\ renders < MaxRenders
            /\ render(_podcast, attrs')
       ELSE UNCHANGED <<shadow, renders, error>>
  /\ lastOp' = [op |-> "attributeChangedCallback", name |-> name,
                oldValue |-> oldValue, newValue |-> newValue]
  /\ lastChanged' = IF oldValue # newValue THEN "attributes" ELSE lastChanged
  /\ UNCHANGED <<_podcast, events>>
  /\ UNCHANGED basicVars

\* el.setAttribute(name, value): the callback runs for every call, also
\* when the value is the one the attribute already has
setAttribute(name, value) ==
  attributeChangedCallback(name, attrs[name], Str(value))

\* el.removeAttribute(name): the callback runs when the attribute existed
removeAttribute(name) ==
  /\ attrs[name] # Null
  /\ attributeChangedCallback(name, attrs[name], Null)

\* a variant of the setter that stores the value and does not render
setPodcast_noRender(data) ==
  /\ renders < MaxRenders
  /\ _podcast' = data
  /\ lastOp' = [op |-> "set podcast", data |-> data,
                previousType |-> _podcast.t]
  /\ lastChanged' = "property"
  /\ UNCHANGED <<attrs, events, shadow, renders, error>>
  /\ UNCHANGED basicVars

\* set podcast(data), lines 94-97
setPodcast(data) ==
  /\ renders < MaxRenders
  /\ _podcast' = data
  /\ render(data, attrs)
  /\ lastOp' = [op |-> "set podcast", data |-> data,
                previousType |-> _podcast.t]
  /\ lastChanged' = "property"
  /\ UNCHANGED <<attrs, events>>
  /\ UNCHANGED basicVars

\* the click listener of the shadow root, lines 52-58; a click inside the
\* card needs rendered content to land on
click ==
  /\ shadow # <<>>
  /\ Len(events) < MaxClicks
  /\ events' = Append(events,
       CustomEvent("podcast-selected",
         [detail |-> [podcast |-> detailPodcast(_podcast, attrs)],
          bubbles |-> TRUE, composed |-> TRUE]))
  /\ lastOp' = [op |-> "click"]
  /\ UNCHANGED <<attrs, _podcast, shadow, renders, error, lastChanged>>
  /\ UNCHANGED basicVars

-----------------------------------------------------------------------------
(* The attribute-only card: src/src/podcastCard.js, lines 1-72 *)

\* render(), lines 23-68: getAttribute gives null or a string
basicRenderCard(a) ==
  LET title == Or(a["title"], Str("Untitled Podcast"))
      image == Or(a["image"], Str("placeholder.jpg"))
      description == Or(a["description"], Str("No description available"))
  IN [ imgSrc |-> ToStr(image), imgAlt |-> ToStr(title), h3 |-> ToStr(title),
       p |-> ToStr(description) ]

\* connectedCallback(), lines 8-11
basicConnectedCallback ==
  /\ basicShadow' = setInnerHTML(basicShadow, basicRenderCard(basicAttrs))
  /\ UNCHANGED basicAttrs
  /\ UNCHANGED cardVars

\* attributeChangedCallback(name, oldValue, newValue), lines 17-21
basicAttributeChangedCallback(name, oldValue, newValue) ==
  /\ basicAttrs' = [basicAttrs EXCEPT ![name] = newValue]
  /\ IF valueChanged(oldValue, newValue)
       THEN basicShadow' = setInnerHTML(basicShadow, basicRenderCard(basicAttrs'))
       ELSE UNCHANGED basicShadow
  /\ UNCHANGED cardVars

basicSetAttribute(name, value) ==
  basicAttributeChangedCallback(name, basicAttrs[name], Str(value))

basicRemoveAttribute(name) ==
  /\ basicAttrs[name] # Null
  /\ basicAttributeChangedCallback(name, basicAttrs[name], Null)

-----------------------------------------------------------------------------
(* Inputs *)

\* values the page gives the attributes
AttrValues(name) ==
  CASE name = "title" -> {"Pod A", ""}
    [] name = "image" -> {"cover.jpg"}
    [] name = "description" -> {"About A"}
    [] name = "genres" -> {"Comedy, News"}
    [] name = "seasons" -> {"2", "0"}
    [] name = "updated" -> {"2024-01-15"}

\* a record with the given fields, the others absent
Record(fields) ==
  Obj([f \in observedAttributes |->
         IF f \in DOMAIN fields THEN fields[f] ELSE Undefined])

PodB ==
  Record([title |-> Str("Pod B"), seasons |-> Num(2),
          genres |-> Arr(<<Str("Comedy"), Str("News")>>),
          updated |-> Str("2024-09-01")])

\* values the page assigns to the podcast property
PodcastValues ==
  { Null, Undefined, PodB, Record([title |-> Str("Pod A")]),
    Record([seasons |-> Num(0)]), Num(7) }

Next ==
  \/ connectedCallback
  \/ \E name \in observedAttributes :
       \E value \in AttrValues(name) : setAttribute(name, value)
  \/ \E name \in observedAttributes : removeAttribute(name)
  \/ \E data \in PodcastValues : setPodcast(data)
  \/ click

Spec == Init /\ [][Next]_vars

-----------------------------------------------------------------------------
(* Rendering of property objects, over a wider range of field values *)

\* the sequences of length at most n over the set S
RECURSIVE SeqsUpTo(_, _)
SeqsUpTo(S, n) ==
  IF n = 0 THEN {<<>>}
  ELSE LET shorter == SeqsUpTo(S, n - 1)
       IN shorter \cup {Append(q, x) : q \in shorter, x \in S}

GenreValues == {Str("Comedy"), Str("News"), Num(1)}

EmptyObject == Record(<<>>)

GenresInputs ==
  {Arr(q) : q \in SeqsUpTo(GenreValues, MaxGenres)}
    \cup {Arr(<<Str("")>>), Undefined, Null, Str(""), Str("Comedy, News"),
          Num(5), Num(0), EmptyObject}

SeasonsInputs == {Undefined, Null, Str(""), Str("3"), Num(0), Num(2)}

RenderInputs ==
  {Record([title |-> t, genres |-> g, seasons |-> n]) :
     t \in {Undefined, Str("Pod A")}, g \in GenresInputs, n \in SeasonsInputs}

NextRender ==
  \/ connectedCallback
  \/ \E data \in RenderInputs : setPodcast(data)

SpecRender == Init /\ [][NextRender]_vars

-----------------------------------------------------------------------------
(* Rendering of records with missing fields, and the attribute-only card *)

MissingOr(v) == {Undefined, Null, v}

DefaultsInputs ==
  {Record([title |-> t, image |-> i, seasons |-> n, updated |-> u,
           description |-> d]) :
     t \in MissingOr(Str("Pod A")), i \in MissingOr(Str("cover.jpg")),
     n \in MissingOr(Num(2)), u \in MissingOr(Str("2024-01-15")),
     d \in {Undefined, Str("About A")}}

BasicAttrValues(name) ==
  CASE name = "title" -> {"Pod A"}
    [] name = "image" -> {"cover.jpg"}
    [] name = "description" -> {"About A", ""}

NextDefaults ==
  \/ connectedCallback
  \/ \E data \in DefaultsInputs : setPodcast(data)
  \/ basicConnectedCallback
  \/ \E name \in basicObservedAttributes :
       \E value \in BasicAttrValues(name) : basicSetAttribute(name, value)
  \/ \E name \in basicObservedAttributes : basicRemoveAttribute(name)

SpecDefaults == Init /\ [][NextDefaults]_vars

-----------------------------------------------------------------------------
(* Properties of the card under Spec *)

\* the record derived from the element's current attributes
AttributeRecord == Obj([f \in observedAttributes |-> attrs[f]])

AttributesPresent == \E n \in observedAttributes : attrs[n] # Null

PropertySet == Truthy(_podcast)

LastEvent == events[Len(events)]

\* C1: every click dispatches exactly one 'podcast-selected' event, bubbling
\* and composed, whose detail.podcast is the value last assigned to the
\* podcast property if one is set and the attribute-derived record
\* otherwise; no other handler dispatches an event.
C1_ClickDispatchesActiveRecord ==
  [][ IF lastOp'.op = "click"
        THEN /\ Len(events') = Len(events) + 1
             /\ SubSeq(events', 1, Len(events)) = events
             /\ events'[Len(events')] =
                  [type |-> "podcast-selected", bubbles |-> TRUE,
                   composed |-> TRUE,
                   detail |-> [podcast |-> IF PropertySet THEN _podcast
                                           ELSE AttributeRecord]]
        ELSE events' = events ]_vars

\* a second click, made with a property object set after attributes were
\* given, has carried that object
C1_Witness ==
  /\ lastOp.op = "click"
  /\ Len(events) = 2
  /\ _podcast.t = "object"
  /\ AttributesPresent
  /\ LastEvent.detail.podcast = _podcast
  /\ events[1].detail.podcast.t = "object"

\* C2: whenever a data object is assigned to the podcast property and
\* attributes are present, the rendered output is the rendering of the
\* property object.
C2_PropertyTakesPrecedence ==
  (_podcast.t = "object" /\ AttributesPresent)
    => shadow = <<renderCard(_podcast)>>

\* an attribute was changed after the object was assigned, and the two
\* records render differently
C2_Witness ==
  /\ _podcast.t = "object"
  /\ lastOp.op = "attributeChangedCallback"
  /\ lastOp.oldValue # lastOp.newValue
  /\ lastOp.newValue # Null
  /\ renderCard(AttributeRecord) # renderCard(_podcast)
  /\ shadow = <<renderCard(_podcast)>>

\* C3 as stated: the rendered output shows the data of the channel that
\* changed last.
C3_Original ==
  /\ lastChanged = "attributes" => shadow = <<renderCard(AttributeRecord)>>
  /\ (lastChanged = "property" /\ _podcast.t = "object")
       => shadow = <<renderCard(_podcast)>>

\* C3, amended: once either channel has changed, the rendered output shows
\* the active record: the property value when it is set, whichever channel
\* changed last, and the attribute-derived record otherwise.
C3_OutputShowsActiveRecord ==
  lastChanged # "none"
    => shadow = <<renderCard(IF PropertySet THEN _podcast
                             ELSE AttributeRecord)>>

\* the attributes changed last while a property object was set: the output
\* shows the property object, not the attributes
C3_Witness ==
  /\ lastChanged = "attributes"
  /\ _podcast.t = "object"
  /\ shadow = <<renderCard(_podcast)>>
  /\ shadow # <<renderCard(AttributeRecord)>>

\* C4: an attribute-changed notification whose new value equals the old one
\* performs no render and leaves the output unchanged; one whose new value
\* differs performs a render of the active record.
C4_NoOpSuppression ==
  [][ lastOp'.op = "attributeChangedCallback"
        => IF lastOp'.oldValue = lastOp'.newValue
             THEN shadow' = shadow /\ renders' = renders
             ELSE /\ renders' = renders + 1
                  /\ shadow' = <<renderCard(IF PropertySet THEN _podcast
                                            ELSE AttributeRecord')>> ]_vars

\* an attribute of a rendered card was set to the value it already had
C4_Witness ==
  /\ lastOp.op = "attributeChangedCallback"
  /\ lastOp.oldValue = lastOp.newValue
  /\ lastOp.newValue # Null
  /\ renders > 0
  /\ shadow = <<renderCard(AttributeRecord)>>

\* C6: a call of render() on a card that is already rendered, with no
\* change of the data in between, leaves the output as it was.
C6_RenderIdempotent ==
  [][ (lastOp'.op = "connectedCallback" /\ renders > 0)
        => (renders' = renders + 1 /\ shadow' = shadow) ]_vars

\* render() ran twice in a row
C6_Witness ==
  /\ lastOp.op = "connectedCallback"
  /\ renders >= 2
  /\ shadow = <<renderCard(IF PropertySet THEN _podcast ELSE AttributeRecord)>>

\* C9: after null or undefined is assigned to the podcast property the card
\* is back on attribute data: the assignment renders the attribute record,
\* a click carries it, and attribute changes show in the output.
C9_EmptyPropertyFallsBack ==
  /\ (lastOp.op = "set podcast" /\ lastOp.data \in {Null, Undefined})
       => shadow = <<renderCard(AttributeRecord)>>
  /\ (lastOp.op = "click" /\ _podcast \in {Null, Undefined})
       => LastEvent.detail.podcast = AttributeRecord
  /\ (lastOp.op = "attributeChangedCallback" /\ renders > 0
        /\ _podcast \in {Null, Undefined})
       => shadow = <<renderCard(AttributeRecord)>>

\* null was assigned over an object while attributes were present
C9_Witness ==
  /\ lastOp.op = "set podcast"
  /\ lastOp.previousType = "object"
  /\ lastOp.data = Null
  /\ AttributesPresent
  /\ shadow = <<renderCard(AttributeRecord)>>

-----------------------------------------------------------------------------
(* Properties of render under SpecRender and SpecDefaults *)

\* field f of the active record
ActiveField(f) ==
  IF _podcast.t = "object" THEN _podcast.o[f]
  ELSE IF PropertySet THEN Undefined ELSE attrs[f]

Missing(v) == v \in {Undefined, Null}

\* the values of a genre sequence, written out and separated by ", "
PreFormatted(q) ==
  LET text(e) == IF e.t = "number" THEN ToString(e.n) ELSE e.s
      fold[i \in 0..Len(q)] ==
        IF i = 0 THEN ""
        ELSE IF i = 1 THEN text(q[1])
        ELSE fold[i - 1] \o ", " \o text(q[i])
  IN fold[Len(q)]

\* the record r with its genres field replaced by g
WithGenres(r, g) == Obj([r.o EXCEPT !["genres"] = g])

\* C7: a record whose genres field is a sequence renders the same genre
\* text as the record with the pre-formatted string of the same values,
\* "Genres: " followed by that string; an empty genres text renders no
\* genre line.
C7_SequenceRendersAsPreFormatted ==
  (_podcast.t = "object" /\ IsArray(_podcast.o["genres"]))
    => LET pre == PreFormatted(_podcast.o["genres"].a)
       IN /\ shadow # <<>>
          /\ shadow[1].genresMeta =
               renderCard(WithGenres(_podcast, Str(pre))).genresMeta
          /\ shadow[1].genresMeta =
               (IF pre = "" THEN "" ELSE "Genres: " \o pre)

\* a sequence of two genre values, one of them a number, has been rendered
C7_Witness ==
  /\ lastOp.op = "set podcast"
  /\ _podcast.t = "object"
  /\ _podcast.o["genres"] = Arr(<<Str("Comedy"), Num(1)>>)
  /\ shadow # <<>>
  /\ shadow[1].genresMeta = "Genres: Comedy, 1"

\* C8 as stated: a genres field that is neither an array nor a string is
\* normalized to the empty string, and no genre line is rendered.
C8_Original ==
  (shadow # <<>> /\ ActiveField("genres").t \notin {"array", "string"})
    => shadow[1].genresMeta = ""

\* C10 as stated: the season text is the em-dash exactly when the season
\* count is missing (absent, null or the empty string), and every supplied
\* count, the integer 0 included, is rendered as 'Seasons: <value>'.
C10_Original ==
  shadow # <<>>
    => LET n == ActiveField("seasons")
           missing == Missing(n) \/ n = Str("")
       IN /\ (shadow[1].seasonsMeta = "Seasons: " \o EmDash) <=> missing
          /\ ~missing => shadow[1].seasonsMeta = "Seasons: " \o ToStr(n)

\* C5 as stated: the defaults of missing fields, with an empty description.
C5_Original ==
  /\ error = "none"
  /\ shadow # <<>> =>
       /\ Missing(ActiveField("title")) => shadow[1].h3 = "Untitled Podcast"
       /\ Missing(ActiveField("image")) => shadow[1].imgSrc = "placeholder.jpg"
       /\ Missing(ActiveField("seasons"))
            => shadow[1].seasonsMeta = "Seasons: " \o EmDash
       /\ Missing(ActiveField("updated")) => shadow[1].updatedMeta = ""
  /\ basicShadow # <<>> =>
       /\ basicAttrs["title"] = Null => basicShadow[1].h3 = "Untitled Podcast"
       /\ basicAttrs["image"] = Null
            => basicShadow[1].imgSrc = "placeholder.jpg"
       /\ basicAttrs["description"] = Null => basicShadow[1].p = ""

\* C5, amended: for every missing field render produces the default: title
\* 'Untitled Podcast', image 'placeholder.jpg', the em-dash for the season
\* count, no date text; the card never renders the description, and the
\* attribute-only card renders 'No description available' for a missing
\* description; render does not throw.
C5_DefaultsForMissingFields ==
  /\ error = "none"
  /\ shadow # <<>> =>
       /\ Missing(ActiveField("title"))
            => (shadow[1].h3 = "Untitled Podcast"
                  /\ shadow[1].imgAlt = "Untitled Podcast")
       /\ Missing(ActiveField("image")) => shadow[1].imgSrc = "placeholder.jpg"
       /\ Missing(ActiveField("seasons"))
            => shadow[1].seasonsMeta = "Seasons: " \o EmDash
       /\ Missing(ActiveField("updated")) => shadow[1].updatedMeta = ""
       /\ DOMAIN shadow[1] = {"imgSrc", "imgAlt", "h3", "genresMeta",
                              "seasonsMeta", "updatedMeta"}
  /\ basicShadow # <<>> =>
       /\ basicAttrs["title"] = Null
            => (basicShadow[1].h3 = "Untitled Podcast"
                  /\ basicShadow[1].imgAlt = "Untitled Podcast")
       /\ basicAttrs["image"] = Null
            => basicShadow[1].imgSrc = "placeholder.jpg"
       /\ basicAttrs["description"] = Null
            => basicShadow[1].p = "No description available"

\* both cards have rendered records with missing title, season count, date
\* and description
C5_Witness ==
  /\ _podcast.t = "object"
  /\ Missing(_podcast.o["title"]) /\ _podcast.o["seasons"] = Null
  /\ _podcast.o["updated"] = Undefined /\ _podcast.o["image"] # Undefined
  /\ shadow # <<>>
  /\ shadow[1].h3 = "Untitled Podcast"
  /\ shadow[1].seasonsMeta = "Seasons: " \o EmDash
  /\ basicShadow # <<>>
  /\ basicAttrs["description"] = Null /\ basicAttrs["title"] # Null
  /\ basicShadow[1].p = "No description available"

====
